---- MODULE Spec2Model ----
(***************************************************************************)
(* Model of the datahub Hub (github.com/ariefdarmawan/datahub): the        *)
(* connection acquisition / release protocol of hub.go (getConn,           *)
(* getConnFromPool, closeConn) and the transaction overlay of hub_tx.go    *)
(* (BeginTx, Commit, Rollback).                                            *)
(*                                                                         *)
(* The specifications share the state:                                     *)
(*   Spec     goroutines running one Hub operation each (acquire -> use -> *)
(*            release) on a pooled Hub, one step per shared access, with   *)
(*            the lazily created mutex of getConnFromPool / closeConn;     *)
(*   SpecPair the steps of Spec with fewer goroutines;                     *)
(*   SpecApi  the public handlers called one after another, each a single  *)
(*            step, on Hubs of every mode (pooled, direct, transaction);   *)
(*   SpecOps  the operations (acquire, body, deferred release in one step) *)
(*            beside explicit acquires and transactions;                   *)
(*   SpecCfg  the pool settings, the getters and Close among the handlers. *)
(***************************************************************************)
EXTENDS Integers, Sequences, FiniteSets, TLC

VARIABLES
    hub,        \* hub[h]: the fields of Hub object h
    pools,      \* pools[h]: the dbflex.DbPooling object h.pool points to
    conns,      \* every connection the factory has produced, by id
    locked,     \* the sync.Mutex objects that are currently locked
    nmtx,       \* number of sync.Mutex objects allocated so far
    pc,         \* pc[g]: position of goroutine g in its operation
    loc,        \* loc[g]: local variables of goroutine g
    panicked,   \* the process died on a run-time panic / fatal error
    backendTx,  \* whether the backend's connections report SupportTx()
    last        \* the handler call that ran last, with its arguments and results

vars == <<hub, pools, conns, locked, nmtx, pc, loc, panicked, backendTx, last>>

-----------------------------------------------------------------------------
(* Bounds of the model *)

NumCallers == 3     \* goroutines of Spec
MaxPoolSize == 3    \* largest poolsize argument given to NewHub in SpecApi
MaxPoolSpec == 2    \* largest poolsize argument given to NewHub in Spec
MaxConns == 3       \* connections the factory can produce in one run
MaxOps == 5         \* handler calls in one run of SpecApi
NumPair == 2        \* goroutines of SpecPair

-----------------------------------------------------------------------------
(* Program constants *)

Nil == 0
DefaultPoolSize == 100
NewHubTimeout == 7
LazyTimeout == 90
DefaultAutoClose == 5
NoIndex == -1
DefaultLog == 1     \* the LogEngine that h.Log() creates
UserLog == 2        \* a LogEngine of the client, given to SetLog

HubIds == {"main", "tx"}
Callers == 1..NumCallers

-----------------------------------------------------------------------------
(* Hub objects *)

\* new(Hub): every field at its zero value
ZeroHub ==
    [alive |-> FALSE, connFn |-> FALSE, usePool |-> FALSE, pool |-> FALSE,
     poolSize |-> 0, poolItems |-> <<>>, mtx |-> Nil, _log |-> Nil,
     txconn |-> Nil, born |-> Nil, argUsePool |-> FALSE, argPoolSize |-> 0]

\* dbflex.NewDbPooling(size, fn): an empty pool of the given capacity
NewDbPooling(size) ==
    [size |-> size, items |-> <<>>, Timeout |-> 0, AutoClose |-> 0,
     AutoRelease |-> 0, closed |-> FALSE, log |-> Nil]

NoPool == NewDbPooling(0)

\* h.Log(): the logger of the Hub, created on first use
Log(hr) == IF hr._log = Nil THEN DefaultLog ELSE hr._log

\* NewHub(fn, usePool, poolsize); a pooled Hub hands h.Log() to its pool
NewHub(fn, usePool, poolsize) ==
    [ZeroHub EXCEPT !.alive = TRUE, !.connFn = fn, !.usePool = usePool,
                    !.poolSize = poolsize, !.pool = usePool,
                    !.argUsePool = usePool, !.argPoolSize = poolsize,
                    !._log = IF usePool THEN Log(ZeroHub) ELSE Nil]

NewHubPool(usePool, poolsize) ==
    IF usePool
    THEN [NewDbPooling(poolsize) EXCEPT !.Timeout = NewHubTimeout,
                                        !.AutoClose = DefaultAutoClose,
                                        !.log = Log(ZeroHub)]
    ELSE NoPool

-----------------------------------------------------------------------------
(* The pieces of getConn / getConnFromPool / closeConn *)

\* if h.txconn != nil
IsPinnedNever(hr) == FALSE
IsPinned(hr) == hr.txconn # Nil

\* if h.connFn == nil
HasFactoryAlways(hr) == TRUE
HasFactory(hr) == hr.connFn

\* if h.usePool (getConn), if !h.usePool (closeConn)
UsesPoolAlways(hr) == TRUE
UsesPool(hr) == hr.usePool

\* if idx < len(h.poolItems) && idx != -1
ReleaseGuard(idx, items) == idx < Len(items) /\ idx # NoIndex

\* h.poolItems[idx] on a Go slice: an index outside 0..len-1 panics
IndexPanics(idx, items) == idx < 0 \/ idx >= Len(items)

\* the removal of closeConn: head, tail or middle of the list
RemoveAtDup(items, idx) ==
    IF Len(items) = 0 THEN <<>>
    ELSE IF idx = 0 THEN Tail(items)
    ELSE IF idx = Len(items) - 1 THEN SubSeq(items, 1, idx)
    ELSE SubSeq(items, 1, idx) \o SubSeq(items, idx + 1, Len(items))
RemoveAt(items, idx) ==
    IF Len(items) = 0 THEN <<>>
    ELSE IF idx = 0 THEN Tail(items)
    ELSE IF idx = Len(items) - 1 THEN SubSeq(items, 1, idx)
    ELSE SubSeq(items, 1, idx) \o SubSeq(items, idx + 2, Len(items))

\* h.poolItems = append(h.poolItems, it)
AppendLease(items, it) == Append(items, it)

\* idx = len(h.poolItems) - 1
LeaseIndexLen(items) == Len(items)
LeaseIndex(items) == Len(items) - 1

\* if h.poolSize == 0 { h.poolSize = 100 }
DefaultedSizeAlways(n) == DefaultPoolSize
DefaultedSize(n) == IF n = 0 THEN DefaultPoolSize ELSE n

-----------------------------------------------------------------------------
(* The pool (dbflex.DbPooling) and the connection factory *)

FreeItems(p) == {k \in 1..Len(p.items) : ~p.items[k].used}
UsedItems(p) == {k \in 1..Len(p.items) : p.items[k].used}
FirstFree(p) == CHOOSE k \in FreeItems(p) : \A j \in FreeItems(p) : k <= j

\* PoolItem.Release()
ItemRelease(p, k) == [p EXCEPT !.items[k].used = FALSE]
\* the pool marks item k as in use and hands it out
ItemUse(p, k) == [p EXCEPT !.items[k].used = TRUE]
\* the pool grows by one item around a fresh connection, handed out at once
ItemNew(p, c) == [p EXCEPT !.items = Append(@, [conn |-> c, used |-> TRUE])]

\* a connection as the factory returns it
NewConn(supportTx) ==
    [open |-> TRUE, ncloses |-> 0, supportTx |-> supportTx, intx |-> FALSE,
     ncommits |-> 0, nrollbacks |-> 0]

\* conn.Close()
ConnClose(cs, c) == [cs EXCEPT ![c].open = FALSE, ![c].ncloses = @ + 1,
                               ![c].intx = FALSE]

\* the record of a handler call: its number, name, receiver, arguments and
\* results, the PoolItem it obtained or released, how often it called the
\* factory and the pool, the receiver's txconn and list length on entry, and
\* for an operation how often it released and ran its body on the connection
NoLast ==
    [n |-> 0, op |-> "none", h |-> "main", idx |-> NoIndex, conn |-> Nil,
     err |-> "none", item |-> Nil, fn |-> 0, gets |-> 0, pinned |-> Nil,
     len |-> 0, rels |-> 0, uses |-> 0, ret |-> Nil, flag |-> FALSE]

Called(op, h, idx, conn, err, item, fn, gets) ==
    [n |-> last.n + 1, op |-> op, h |-> h, idx |-> idx, conn |-> conn,
     err |-> err, item |-> item, fn |-> fn, gets |-> gets,
     pinned |-> hub[h].txconn, len |-> Len(hub[h].poolItems),
     rels |-> 0, uses |-> 0, ret |-> Nil, flag |-> FALSE]

NoLoc ==
    [phase |-> "acq", idx |-> NoIndex, conn |-> Nil, item |-> Nil,
     err |-> "none", lk |-> Nil, ul |-> Nil, snap |-> <<>>, rel |-> Nil]

-----------------------------------------------------------------------------
(* SpecApi: the handlers, one step each *)

Idle == ~panicked /\ last.n < MaxOps

\* the lazy part of getConnFromPool: poolSize default, mutex, pool
LazyHub(hr) ==
    [hr EXCEPT !.poolSize = DefaultedSize(@),
               !.mtx = IF @ = Nil THEN nmtx + 1 ELSE @,
               !._log = IF hr.pool THEN @ ELSE Log(hr),
               !.pool = TRUE]
LazyPool(hr, p) ==
    IF hr.pool THEN p
    ELSE [NewDbPooling(DefaultedSize(hr.poolSize)) EXCEPT
              !.Timeout = LazyTimeout, !.AutoClose = DefaultAutoClose,
              !.log = Log(hr)]
LazyMtx(hr) == IF hr.mtx = Nil THEN nmtx + 1 ELSE nmtx

\* getConn on a Hub holding a pinned connection
GetConnPinned(h) ==
    /\ IsPinned(hub[h])
    /\ last' = Called("GetConnection", h, NoIndex, hub[h].txconn, "none", Nil, 0, 0)
    /\ UNCHANGED <<hub, pools, conns, locked, nmtx, pc, loc, panicked>>

\* getConn on a Hub without connection factory
GetConnNoFn(h) ==
    /\ ~IsPinned(hub[h])
    /\ ~HasFactory(hub[h])
    /\ last' = Called("GetConnection", h, NoIndex, Nil, "config", Nil, 0, 0)
    /\ UNCHANGED <<hub, pools, conns, locked, nmtx, pc, loc, panicked>>

\* getConn -> getConnFromPool, the pool hands out an idle item
GetConnPoolFree(h) ==
    LET hr == LazyHub(hub[h])
        p  == LazyPool(hub[h], pools[h])
    IN  /\ ~IsPinned(hub[h]) /\ HasFactory(hub[h]) /\ UsesPool(hub[h])
        /\ FreeItems(p) # {}
        /\ LET k     == FirstFree(p)
               items == AppendLease(hr.poolItems, k)
           IN  /\ hub' = [hub EXCEPT ![h] = [hr EXCEPT !.poolItems = items]]
               /\ pools' = [pools EXCEPT ![h] = ItemUse(p, k)]
               /\ last' = Called("GetConnection", h, LeaseIndex(items),
                                 p.items[k].conn, "none", k, 0, 1)
        /\ nmtx' = LazyMtx(hub[h])
        /\ UNCHANGED <<conns, locked, pc, loc, panicked>>

\* getConn -> getConnFromPool, the pool opens a new item with the factory
GetConnPoolNew(h) ==
    LET hr == LazyHub(hub[h])
        p  == LazyPool(hub[h], pools[h])
    IN  /\ ~IsPinned(hub[h]) /\ HasFactory(hub[h]) /\ UsesPool(hub[h])
        /\ FreeItems(p) = {} /\ Len(p.items) < p.size
        /\ Len(conns) < MaxConns
        /\   LET c     == Len(conns) + 1
                 k     == Len(p.items) + 1
                 items == AppendLease(hr.poolItems, k)
             IN  /\ conns' = Append(conns, NewConn(backendTx))
                 /\ hub' = [hub EXCEPT ![h] = [hr EXCEPT !.poolItems = items]]
                 /\ pools' = [pools EXCEPT ![h] = ItemNew(p, c)]
                 /\ last' = Called("GetConnection", h, LeaseIndex(items), c,
                                   "none", k, 1, 1)
        /\ nmtx' = LazyMtx(hub[h])
        /\ UNCHANGED <<locked, pc, loc, panicked>>

\* getConn -> getConnFromPool, pool.Get fails: the factory fails for a new
\* item, or the pool is saturated until the timeout
GetConnPoolFail(h) ==
    LET hr == LazyHub(hub[h])
        p  == LazyPool(hub[h], pools[h])
    IN  /\ ~IsPinned(hub[h]) /\ HasFactory(hub[h]) /\ UsesPool(hub[h])
        /\ FreeItems(p) = {}
        /\ hub' = [hub EXCEPT ![h] = hr]
        /\ pools' = [pools EXCEPT ![h] = p]
        /\ last' = Called("GetConnection", h, NoIndex, Nil, "pool", Nil,
                          IF Len(p.items) < p.size THEN 1 ELSE 0, 1)
        /\ nmtx' = LazyMtx(hub[h])
        /\ UNCHANGED <<conns, locked, pc, loc, panicked>>

\* getConn on a direct Hub: conn, err := h.connFn()
GetConnDirect(h) ==
    /\ ~IsPinned(hub[h]) /\ HasFactory(hub[h]) /\ ~UsesPool(hub[h])
    /\ \/ /\ Len(conns) < MaxConns
          /\ conns' = Append(conns, NewConn(backendTx))
          /\ last' = Called("GetConnection", h, NoIndex, Len(conns) + 1,
                            "none", Nil, 1, 0)
       \/ /\ last' = Called("GetConnection", h, NoIndex, Nil, "open", Nil, 1, 0)
          /\ UNCHANGED conns
    /\ UNCHANGED <<hub, pools, locked, nmtx, pc, loc, panicked>>

GetConnection(h) ==
    /\ Idle /\ hub[h].alive
    /\ UNCHANGED backendTx
    /\ \/ GetConnPinned(h)
       \/ GetConnNoFn(h)
       \/ GetConnPoolFree(h)
       \/ GetConnPoolNew(h)
       \/ GetConnPoolFail(h)
       \/ GetConnDirect(h)

\* closeConn on a Hub holding a pinned connection: return
CloseConnPinned(h, idx, conn) ==
    /\ IsPinned(hub[h])
    /\ last' = Called("CloseConnection", h, idx, conn, "none", Nil, 0, 0)
    /\ UNCHANGED <<hub, pools, conns, locked, nmtx, pc, loc, panicked>>

\* closeConn otherwise: close on a direct Hub, then the list under the mutex
CloseConnFree(h, idx, conn) ==
    LET hr    == [hub[h] EXCEPT !.mtx = IF @ = Nil THEN nmtx + 1 ELSE @]
        items == hub[h].poolItems
    IN  /\ ~IsPinned(hub[h])
        /\ conns' = IF UsesPool(hub[h]) THEN conns ELSE ConnClose(conns, conn)
        /\ nmtx' = LazyMtx(hub[h])
        /\ IF ~ReleaseGuard(idx, items)
           THEN /\ hub' = [hub EXCEPT ![h] = hr]
                /\ last' = Called("CloseConnection", h, idx, conn, "none", Nil, 0, 0)
                /\ UNCHANGED <<pools, locked, panicked>>
           ELSE IF IndexPanics(idx, items)
           THEN \* index out of range, raised with the mutex held
                /\ hub' = [hub EXCEPT ![h] = hr]
                /\ panicked' = TRUE
                /\ locked' = locked \cup {hr.mtx}
                /\ last' = Called("CloseConnection", h, idx, conn, "panic", Nil, 0, 0)
                /\ UNCHANGED pools
           ELSE /\ hub' = [hub EXCEPT ![h] =
                               [hr EXCEPT !.poolItems = RemoveAt(items, idx)]]
                /\ pools' = [pools EXCEPT ![h] = ItemRelease(@, items[idx + 1])]
                /\ last' = Called("CloseConnection", h, idx, conn, "none",
                                  items[idx + 1], 0, 0)
                /\ UNCHANGED <<locked, panicked>>
        /\ UNCHANGED <<pc, loc>>

\* the indices a client may pass: one below the sentinel up to one past any list
Indices == (NoIndex - 1)..MaxConns

CloseConnection(h) ==
    /\ Idle /\ hub[h].alive
    /\ UNCHANGED backendTx
    /\ \E idx \in Indices, conn \in 1..Len(conns) :
          \/ CloseConnPinned(h, idx, conn)
          \/ CloseConnFree(h, idx, conn)

-----------------------------------------------------------------------------
(* The operations: idx, conn, err := h.getConn(); defer h.closeConn(idx, conn) *)

\* what getConn returns and leaves behind
Acquired(hr, p, cs, idx, conn, err, item, fn, gets) ==
    [hub |-> hr, pool |-> p, conns |-> cs, idx |-> idx, conn |-> conn,
     err |-> err, item |-> item, fn |-> fn, gets |-> gets]

\* getConnFromPool; ok: the factory succeeds if the pool calls it
getConnFromPool(hr, p, cs, ok) ==
    LET h1 == LazyHub(hr)
        p1 == LazyPool(hr, p)
    IN  IF FreeItems(p1) # {}
        THEN LET k     == FirstFree(p1)
                 items == AppendLease(h1.poolItems, k)
             IN  Acquired([h1 EXCEPT !.poolItems = items], ItemUse(p1, k), cs,
                          LeaseIndex(items), p1.items[k].conn, "none", k, 0, 1)
        ELSE IF Len(p1.items) < p1.size /\ ok
        THEN LET c     == Len(cs) + 1
                 k     == Len(p1.items) + 1
                 items == AppendLease(h1.poolItems, k)
             IN  Acquired([h1 EXCEPT !.poolItems = items], ItemNew(p1, c),
                          Append(cs, NewConn(backendTx)),
                          LeaseIndex(items), c, "none", k, 1, 1)
        ELSE Acquired(h1, p1, cs, NoIndex, Nil, "pool", Nil,
                      IF Len(p1.items) < p1.size THEN 1 ELSE 0, 1)

\* getConn; ok: the factory succeeds if it is called
getConn(hr, p, cs, ok) ==
    IF IsPinned(hr)
    THEN Acquired(hr, p, cs, NoIndex, hr.txconn, "none", Nil, 0, 0)
    ELSE IF ~HasFactory(hr)
    THEN Acquired(hr, p, cs, NoIndex, Nil, "config", Nil, 0, 0)
    ELSE IF UsesPool(hr)
    THEN getConnFromPool(hr, p, cs, ok)
    ELSE IF ok
    THEN Acquired(hr, p, Append(cs, NewConn(backendTx)), NoIndex, Len(cs) + 1,
                  "none", Nil, 1, 0)
    ELSE Acquired(hr, p, cs, NoIndex, Nil, "open", Nil, 1, 0)

\* what closeConn leaves behind
Closed(hr, p, cs, item, panic) ==
    [hub |-> hr, pool |-> p, conns |-> cs, item |-> item, panic |-> panic]

\* closeConn(idx, conn)
closeConn(hr, p, cs, idx, conn) ==
    IF IsPinned(hr) THEN Closed(hr, p, cs, Nil, FALSE)
    ELSE LET h1    == [hr EXCEPT !.mtx = IF @ = Nil THEN nmtx + 1 ELSE @]
             cs1   == IF UsesPool(hr) THEN cs ELSE ConnClose(cs, conn)
             items == hr.poolItems
         IN  IF ~ReleaseGuard(idx, items) THEN Closed(h1, p, cs1, Nil, FALSE)
             ELSE IF IndexPanics(idx, items) THEN Closed(h1, p, cs1, Nil, TRUE)
             ELSE Closed([h1 EXCEPT !.poolItems = RemoveAt(items, idx)],
                         ItemRelease(p, items[idx + 1]), cs1, items[idx + 1],
                         FALSE)

\* the release of an operation is deferred: it runs once, after the body
DeferredNever(n) == 0
Deferred(n) == n

\* Insert, Save, Update, Delete, Get, Gets, Count, Execute, Populate ...:
\* acquire, return on error; else run the body (which succeeds or fails) on
\* the connection and release with the index and connection acquired
Operation(h) ==
    /\ Idle /\ hub[h].alive
    /\ UNCHANGED backendTx
    /\ \E ok \in BOOLEAN, body \in BOOLEAN :
         LET a == getConn(hub[h], pools[h], conns, ok)
         IN  /\ Len(a.conns) <= MaxConns
             /\ IF a.err # "none"
                THEN /\ hub' = [hub EXCEPT ![h] = a.hub]
                     /\ pools' = [pools EXCEPT ![h] = a.pool]
                     /\ conns' = a.conns
                     /\ nmtx' = IF a.hub.mtx # hub[h].mtx THEN nmtx + 1 ELSE nmtx
                     /\ last' = Called("Operation", h, a.idx, a.conn, a.err,
                                       a.item, a.fn, a.gets)
                     /\ UNCHANGED <<locked, panicked>>
                ELSE LET r == IF Deferred(1) = 1
                              THEN closeConn(a.hub, a.pool, a.conns, a.idx, a.conn)
                              ELSE Closed(a.hub, a.pool, a.conns, Nil, FALSE)
                     IN  /\ hub' = [hub EXCEPT ![h] = r.hub]
                         /\ pools' = [pools EXCEPT ![h] = r.pool]
                         /\ conns' = r.conns
                         /\ nmtx' = IF r.hub.mtx # hub[h].mtx THEN nmtx + 1 ELSE nmtx
                         /\ panicked' = r.panic
                         /\ locked' = IF r.panic THEN locked \cup {r.hub.mtx}
                                      ELSE locked
                         /\ last' = [Called("Operation", h, a.idx, a.conn,
                                            IF body THEN "none" ELSE "body",
                                            a.item, a.fn, a.gets)
                                     EXCEPT !.rels = Deferred(1), !.uses = 1]
    /\ UNCHANGED <<pc, loc>>

-----------------------------------------------------------------------------
(* Pool settings, getters, Close *)

\* the durations a client passes to the setters
Durations == {1}
Grace == 5      \* the 5 seconds added to the acquisition timeout

\* if h.pool == nil { h.pool = dbflex.NewDbPooling(h.poolSize, h.connFn) }
SetterPool(hr, p) == IF hr.pool THEN p ELSE NewDbPooling(hr.poolSize)

\* SetAutoCloseDuration(d)
AutoCloseAlways(hr) == TRUE
AutoCloseApplies(hr) == hr.usePool
SetAutoCloseDuration(h) ==
    /\ Idle /\ hub[h].alive
    /\ UNCHANGED backendTx
    /\ \E d \in Durations :
         /\ IF AutoCloseApplies(hub[h])
            THEN /\ hub' = [hub EXCEPT ![h].pool = TRUE]
                 /\ pools' = [pools EXCEPT ![h] =
                                [SetterPool(hub[h], @) EXCEPT !.AutoClose = d]]
            ELSE UNCHANGED <<hub, pools>>
         /\ last' = [Called("SetAutoCloseDuration", h, NoIndex, Nil, "none",
                            Nil, 0, 0) EXCEPT !.ret = d]
    /\ UNCHANGED <<conns, locked, nmtx, pc, loc, panicked>>

\* h.pool.Timeout = d + 5s
TimeoutFor(d) == d + Grace

\* SetAutoReleaseDuration(d)
SetAutoReleaseDuration(h) ==
    /\ Idle /\ hub[h].alive
    /\ UNCHANGED backendTx
    /\ \E d \in Durations :
         /\ IF hub[h].usePool
            THEN /\ hub' = [hub EXCEPT ![h].pool = TRUE]
                 /\ pools' = [pools EXCEPT ![h] =
                                [SetterPool(hub[h], @) EXCEPT
                                    !.Timeout = TimeoutFor(d),
                                    !.AutoRelease = d]]
            ELSE UNCHANGED <<hub, pools>>
         /\ last' = [Called("SetAutoReleaseDuration", h, NoIndex, Nil, "none",
                            Nil, 0, 0) EXCEPT !.ret = d]
    /\ UNCHANGED <<conns, locked, nmtx, pc, loc, panicked>>

\* UsePool() and PoolSize()
UsePool(hr) == hr.usePool
PoolSizeArg(hr) == hr.argPoolSize
PoolSize(hr) == hr.poolSize

\* a call of UsePool() and of PoolSize(), with their results
Getters(h) ==
    /\ Idle /\ hub[h].alive
    /\ last' = [Called("Getters", h, NoIndex, Nil, "none", Nil, 0, 0)
                EXCEPT !.flag = UsePool(hub[h]), !.ret = PoolSize(hub[h])]
    /\ UNCHANGED <<hub, pools, conns, locked, nmtx, pc, loc, panicked, backendTx>>

\* Close(): if h.usePool { h.pool.Close() }
Close(h) ==
    /\ Idle /\ hub[h].alive
    /\ pools' = [pools EXCEPT ![h].closed = IF hub[h].usePool THEN TRUE ELSE @]
    /\ last' = Called("Close", h, NoIndex, Nil, "none", Nil, 0, 0)
    /\ UNCHANGED <<hub, conns, locked, nmtx, pc, loc, panicked, backendTx>>

\* SetLog(l): h._log = l; if h.pool != nil { h.pool.SetLog(l) }
SetLog(h) ==
    /\ Idle /\ hub[h].alive
    /\ UNCHANGED backendTx
    /\ \E l \in {UserLog} :
          /\ hub' = [hub EXCEPT ![h]._log = l]
          /\ pools' = [pools EXCEPT ![h].log = IF hub[h].pool THEN l ELSE @]
          /\ last' = Called("SetLog", h, NoIndex, Nil, "none", Nil, 0, 0)
    /\ UNCHANGED <<conns, locked, nmtx, pc, loc, panicked>>

-----------------------------------------------------------------------------
(* hub_tx.go *)

\* conn.Commit() and conn.RollBack(): one more call of each on connection c
ConnCommit(cs, c) == [cs EXCEPT ![c].ncommits = @ + 1]
ConnRollBack(cs, c) == [cs EXCEPT ![c].nrollbacks = @ + 1]

\* ht := new(Hub); ht.txconn = conn; ht._log = h._log
NewTxHubNoLog(c, l) ==
    [ZeroHub EXCEPT !.alive = TRUE, !.txconn = c, !.born = c]
NewTxHub(c, l) ==
    [ZeroHub EXCEPT !.alive = TRUE, !.txconn = c, !.born = c, !._log = l]

\* h.connFn() on a Hub without factory: the call of a nil func panics
GetClassicNoFn(h, op) ==
    /\ ~HasFactory(hub[h])
    /\ panicked' = TRUE
    /\ last' = Called(op, h, NoIndex, Nil, "panic", Nil, 0, 0)
    /\ UNCHANGED <<hub, pools, conns, locked, nmtx, pc, loc>>

\* GetClassicConnection: return h.connFn()
GetClassicConn(h) ==
    /\ HasFactory(hub[h])
    /\ \/ /\ Len(conns) < MaxConns
          /\ conns' = Append(conns, NewConn(backendTx))
          /\ last' = Called("GetClassicConnection", h, NoIndex, Len(conns) + 1,
                            "none", Nil, 1, 0)
       \/ /\ last' = Called("GetClassicConnection", h, NoIndex, Nil, "open",
                            Nil, 1, 0)
          /\ UNCHANGED conns
    /\ UNCHANGED <<hub, pools, locked, nmtx, pc, loc, panicked>>

GetClassicConnection(h) ==
    /\ Idle /\ hub[h].alive
    /\ UNCHANGED backendTx
    /\ \/ GetClassicNoFn(h, "GetClassicConnection")
       \/ GetClassicConn(h)

\* BeginTx: GetClassicConnection calls h.connFn, a nil func on a Hub without factory
BeginTxNoFn(h) == GetClassicNoFn(h, "BeginTx")

\* BeginTx: the factory fails
BeginTxNoConn(h) ==
    /\ HasFactory(hub[h])
    /\ last' = Called("BeginTx", h, NoIndex, Nil, "open", Nil, 1, 0)
    /\ UNCHANGED <<hub, pools, conns, locked, nmtx, pc, loc, panicked>>

\* if !conn.SupportTx() { conn.Close(); return error }
NoSupportKeepOpen(cs, c) == cs
NoSupport(cs, c) == ConnClose(cs, c)

\* if e = conn.BeginTx(); e != nil { return error }: the connection stays as it is
BeginFailed(cs, c) == cs

\* BeginTx: the factory succeeds; SupportTx, conn.BeginTx
BeginTxConn(h) ==
    /\ HasFactory(hub[h])
    /\ Len(conns) < MaxConns
    /\ \E ok \in BOOLEAN :
         LET c  == Len(conns) + 1
             cs == Append(conns, NewConn(backendTx))
         IN  IF ~cs[c].supportTx
             THEN /\ conns' = NoSupport(cs, c)
                  /\ last' = Called("BeginTx", h, NoIndex, c, "unsupported", Nil, 1, 0)
                  /\ UNCHANGED hub
             ELSE IF ~ok
             THEN /\ conns' = BeginFailed(cs, c)
                  /\ last' = Called("BeginTx", h, NoIndex, c, "begin", Nil, 1, 0)
                  /\ UNCHANGED hub
             ELSE /\ ~hub["tx"].alive
                  /\ conns' = [cs EXCEPT ![c].intx = TRUE]
                  /\ hub' = [hub EXCEPT !["tx"] = NewTxHub(c, hub[h]._log)]
                  /\ last' = Called("BeginTx", h, NoIndex, c, "none", Nil, 1, 0)
    /\ UNCHANGED <<pools, locked, nmtx, pc, loc, panicked>>

BeginTx(h) ==
    /\ Idle /\ hub[h].alive
    /\ UNCHANGED backendTx
    /\ \/ BeginTxNoFn(h)
       \/ BeginTxNoConn(h)
       \/ BeginTxConn(h)

\* the deferred func of Commit and Rollback, on the Hub: h.txconn = nil
CleanupKeep(hr) == hr
Cleanup(hr) == [hr EXCEPT !.txconn = Nil]

\* Commit on the connection: h.txconn.Commit(), then the deferred h.txconn.Close()
CommitConnsOnOk(cs, c, ok) ==
    IF ok THEN ConnClose(ConnCommit(cs, c), c) ELSE ConnCommit(cs, c)
CommitConns(cs, c, ok) == ConnClose(ConnCommit(cs, c), c)

\* Rollback on the connection: h.txconn.RollBack(), then the deferred h.txconn.Close()
RollbackConnsTwice(cs, c, ok) ==
    IF ok THEN ConnClose(ConnRollBack(ConnRollBack(cs, c), c), c)
    ELSE ConnClose(ConnRollBack(cs, c), c)
RollbackConns(cs, c, ok) == ConnClose(ConnRollBack(cs, c), c)

\* Commit / Rollback on a Hub without pinned connection
FinishNoTx(h, op) ==
    /\ hub[h].txconn = Nil
    /\ last' = Called(op, h, NoIndex, Nil, "notx", Nil, 0, 0)
    /\ UNCHANGED <<hub, pools, conns, locked, nmtx, pc, loc, panicked>>

\* Commit: h.txconn.Commit() succeeds or fails, then the deferred cleanup
CommitTx(h) ==
    /\ hub[h].txconn # Nil
    /\ \E ok \in BOOLEAN :
         LET c == hub[h].txconn
         IN  /\ conns' = CommitConns(conns, c, ok)
             /\ last' = Called("Commit", h, NoIndex, c,
                               IF ok THEN "none" ELSE "commit", Nil, 0, 0)
    /\ hub' = [hub EXCEPT ![h] = Cleanup(@)]
    /\ UNCHANGED <<pools, locked, nmtx, pc, loc, panicked>>

\* Rollback: h.txconn.RollBack() succeeds or fails, then the deferred cleanup
RollbackTx(h) ==
    /\ hub[h].txconn # Nil
    /\ \E ok \in BOOLEAN :
         LET c == hub[h].txconn
         IN  /\ conns' = RollbackConns(conns, c, ok)
             /\ last' = Called("Rollback", h, NoIndex, c,
                               IF ok THEN "none" ELSE "rollback", Nil, 0, 0)
    /\ hub' = [hub EXCEPT ![h] = Cleanup(@)]
    /\ UNCHANGED <<pools, locked, nmtx, pc, loc, panicked>>

Commit(h) ==
    /\ Idle /\ hub[h].alive
    /\ UNCHANGED backendTx
    /\ \/ FinishNoTx(h, "Commit")
       \/ CommitTx(h)

Rollback(h) ==
    /\ Idle /\ hub[h].alive
    /\ UNCHANGED backendTx
    /\ \/ FinishNoTx(h, "Rollback")
       \/ RollbackTx(h)

\* IsTx(): the connection's own flag on a pinned Hub, false otherwise
IsTxPinned(hr, cs) == hr.txconn # Nil
IsTx(hr, cs) == IF hr.txconn # Nil THEN cs[hr.txconn].intx ELSE FALSE

\* a call of IsTx(), with its result
IsTxCall(h) ==
    /\ Idle /\ hub[h].alive
    /\ last' = [Called("IsTx", h, NoIndex, Nil, "none", Nil, 0, 0)
                EXCEPT !.flag = IsTx(hub[h], conns)]
    /\ UNCHANGED <<hub, pools, conns, locked, nmtx, pc, loc, panicked, backendTx>>

-----------------------------------------------------------------------------
(* SpecApi *)

InitApi ==
    /\ \E fn \in BOOLEAN, usePool \in BOOLEAN, poolsize \in 0..MaxPoolSize :
         /\ hub = [h \in HubIds |->
                     IF h = "main" THEN NewHub(fn, usePool, poolsize) ELSE ZeroHub]
         /\ pools = [h \in HubIds |->
                     IF h = "main" THEN NewHubPool(usePool, poolsize) ELSE NoPool]
    /\ conns = <<>>
    /\ locked = {}
    /\ nmtx = 0
    /\ pc = [g \in Callers |-> "done"]
    /\ loc = [g \in Callers |-> NoLoc]
    /\ panicked = FALSE
    /\ backendTx \in BOOLEAN
    /\ last = NoLast

NextApi ==
    \E h \in HubIds :
        \/ GetConnection(h)
        \/ CloseConnection(h)
        \/ GetClassicConnection(h)
        \/ SetLog(h)
        \/ BeginTx(h)
        \/ Commit(h)
        \/ Rollback(h)

SpecApi == InitApi /\ [][NextApi]_vars

\* SpecOps: the operations, beside explicit acquires and transactions
NextOps ==
    \E h \in HubIds :
        \/ Operation(h)
        \/ GetConnection(h)
        \/ BeginTx(h)
        \/ Commit(h)
        \/ Rollback(h)

SpecOps == InitApi /\ [][NextOps]_vars

\* SpecCfg: the settings, getters and Close among the other handlers
NextCfg ==
    \E h \in HubIds :
        \/ SetAutoCloseDuration(h)
        \/ SetAutoReleaseDuration(h)
        \/ Getters(h)
        \/ Close(h)
        \/ IsTxCall(h)
        \/ GetConnection(h)
        \/ CloseConnection(h)
        \/ BeginTx(h)
        \/ Commit(h)
        \/ Rollback(h)

SpecCfg == InitApi /\ [][NextCfg]_vars

-----------------------------------------------------------------------------
(* SpecTx: goroutines running operations through the transaction handle,   *)
(* beside the Commit and Rollback of that handle. An operation is two      *)
(* steps, h.getConn() and the deferred h.closeConn(idx, conn), and other   *)
(* goroutines run between them.                                            *)

T == "tx"

\* idx, conn, err := h.getConn(); if err != nil { return }
OpAcquire(g) ==
    /\ Idle /\ hub[T].alive
    /\ pc[g] = "idle"
    /\ \E ok \in BOOLEAN :
         LET a == getConn(hub[T], pools[T], conns, ok)
         IN  /\ Len(a.conns) <= MaxConns
             /\ hub' = [hub EXCEPT ![T] = a.hub]
             /\ pools' = [pools EXCEPT ![T] = a.pool]
             /\ conns' = a.conns
             /\ nmtx' = IF a.hub.mtx # hub[T].mtx THEN nmtx + 1 ELSE nmtx
             /\ last' = Called("getConn", T, a.idx, a.conn, a.err, a.item,
                               a.fn, a.gets)
             /\ IF a.err # "none"
                THEN /\ pc' = [pc EXCEPT ![g] = "done"]
                     /\ loc' = [loc EXCEPT ![g].err = a.err]
                ELSE /\ pc' = [pc EXCEPT ![g] = "use"]
                     /\ loc' = [loc EXCEPT ![g].idx = a.idx, ![g].conn = a.conn,
                                           ![g].item = a.item]
    /\ UNCHANGED <<locked, panicked, backendTx>>

\* the deferred h.closeConn(idx, conn), with the values acquired
OpRelease(g) ==
    /\ Idle /\ hub[T].alive
    /\ pc[g] = "use"
    /\ LET r == closeConn(hub[T], pools[T], conns, loc[g].idx, loc[g].conn)
       IN  /\ hub' = [hub EXCEPT ![T] = r.hub]
           /\ pools' = [pools EXCEPT ![T] = r.pool]
           /\ conns' = r.conns
           /\ nmtx' = IF r.hub.mtx # hub[T].mtx THEN nmtx + 1 ELSE nmtx
           /\ panicked' = r.panic
           /\ locked' = IF r.panic THEN locked \cup {r.hub.mtx} ELSE locked
           /\ last' = [Called("closeConn", T, loc[g].idx, loc[g].conn, "none",
                              r.item, 0, 0) EXCEPT !.rels = 1]
    /\ pc' = [pc EXCEPT ![g] = "done"]
    /\ loc' = [loc EXCEPT ![g].phase = "rel"]
    /\ UNCHANGED backendTx

InitTx ==
    /\ \E fn \in BOOLEAN, usePool \in BOOLEAN, poolsize \in 0..MaxPoolSize :
         /\ hub = [h \in HubIds |->
                     IF h = "main" THEN NewHub(fn, usePool, poolsize) ELSE ZeroHub]
         /\ pools = [h \in HubIds |->
                     IF h = "main" THEN NewHubPool(usePool, poolsize) ELSE NoPool]
    /\ conns = <<>>
    /\ locked = {}
    /\ nmtx = 0
    /\ pc = [g \in Callers |-> "idle"]
    /\ loc = [g \in Callers |-> NoLoc]
    /\ panicked = FALSE
    /\ backendTx \in BOOLEAN
    /\ last = NoLast

NextTx ==
    \/ \E h \in HubIds :
        \/ BeginTx(h)
        \/ Commit(h)
        \/ Rollback(h)
    \/ \E g \in Callers :
        \/ OpAcquire(g)
        \/ OpRelease(g)

SpecTx == InitTx /\ [][NextTx]_vars

-----------------------------------------------------------------------------
(* Spec: goroutines on the pooled Hub "main", each running one operation    *)
(* (idx, conn, err := h.getConn(); defer h.closeConn(idx, conn); body)      *)

M == "main"

\* goroutine g moves to position p; a dead process takes no step
Goto(g, p) ==
    /\ ~panicked
    /\ pc' = [pc EXCEPT ![g] = p]
    /\ UNCHANGED backendTx

\* the order of the statements of getConnFromPool (mutex check, pool.Get,
\* Lock, defer Unlock, append) and of closeConn (mutex check, Lock, defer
\* Unlock, release): the position that follows position p
FlowLockFirst(p, phase) ==
    IF phase = "rel" THEN (IF p = "chk" THEN "lock" ELSE "rread")
    ELSE IF p = "chk" THEN "lock"
    ELSE IF p = "defer" THEN "get"
    ELSE "aread"
Flow(p, phase) ==
    IF phase = "rel" THEN (IF p = "chk" THEN "lock" ELSE "rread")
    ELSE IF p = "chk" THEN "get"
    ELSE IF p = "get" THEN "lock"
    ELSE "aread"

\* if h.mtx == nil, in getConnFromPool and in closeConn
MtxCheck(g) ==
    /\ pc[g] = "chk"
    /\ Goto(g, IF hub[M].mtx = Nil THEN "new" ELSE Flow("chk", loc[g].phase))
    /\ UNCHANGED <<hub, pools, conns, locked, nmtx, loc, panicked, last>>

\* h.mtx = new(sync.Mutex)
MtxNew(g) ==
    /\ pc[g] = "new"
    /\ nmtx' = nmtx + 1
    /\ hub' = [hub EXCEPT ![M].mtx = nmtx + 1]
    /\ Goto(g, Flow("chk", loc[g].phase))
    /\ UNCHANGED <<pools, conns, locked, loc, panicked, last>>

\* it, err := h.pool.Get(): an idle item
PoolGetFree(g) ==
    /\ FreeItems(pools[M]) # {}
    /\ LET k == FirstFree(pools[M])
       IN  /\ pools' = [pools EXCEPT ![M] = ItemUse(@, k)]
           /\ loc' = [loc EXCEPT ![g].item = k, ![g].conn = pools[M].items[k].conn]
    /\ Goto(g, Flow("get", loc[g].phase))
    /\ UNCHANGED conns

\* it, err := h.pool.Get(): a new item, opened with the factory
PoolGetNew(g) ==
    /\ FreeItems(pools[M]) = {} /\ Len(pools[M].items) < pools[M].size
    /\ Len(conns) < MaxConns
    /\ conns' = Append(conns, NewConn(backendTx))
    /\ pools' = [pools EXCEPT ![M] = ItemNew(@, Len(conns) + 1)]
    /\ loc' = [loc EXCEPT ![g].item = Len(pools[M].items) + 1,
                          ![g].conn = Len(conns) + 1]
    /\ Goto(g, Flow("get", loc[g].phase))

\* it, err := h.pool.Get(): the factory fails, or no item is idle at the timeout
PoolGetFail(g) ==
    /\ FreeItems(pools[M]) = {}
    /\ loc' = [loc EXCEPT ![g].err = "pool"]
    /\ Goto(g, "done")
    /\ UNCHANGED <<pools, conns>>

PoolGet(g) ==
    /\ pc[g] = "get"
    /\ \/ PoolGetFree(g)
       \/ PoolGetNew(g)
       \/ PoolGetFail(g)
    /\ UNCHANGED <<hub, locked, nmtx, panicked, last>>

\* h.mtx.Lock()
Lock(g) ==
    /\ pc[g] = "lock"
    /\ hub[M].mtx \notin locked
    /\ locked' = locked \cup {hub[M].mtx}
    /\ loc' = [loc EXCEPT ![g].lk = hub[M].mtx]
    /\ Goto(g, "defer")
    /\ UNCHANGED <<hub, pools, conns, nmtx, panicked, last>>

\* defer h.mtx.Unlock(): the receiver h.mtx is evaluated here
Defer(g) ==
    /\ pc[g] = "defer"
    /\ loc' = [loc EXCEPT ![g].ul = hub[M].mtx]
    /\ Goto(g, Flow("defer", loc[g].phase))
    /\ UNCHANGED <<hub, pools, conns, locked, nmtx, panicked, last>>

\* append(h.poolItems, it): the read of h.poolItems
AcqRead(g) ==
    /\ pc[g] = "aread"
    /\ loc' = [loc EXCEPT ![g].snap = hub[M].poolItems]
    /\ Goto(g, "awrite")
    /\ UNCHANGED <<hub, pools, conns, locked, nmtx, panicked, last>>

\* h.poolItems = append(...): the write of h.poolItems
AcqWrite(g) ==
    /\ pc[g] = "awrite"
    /\ hub' = [hub EXCEPT ![M].poolItems = AppendLease(loc[g].snap, loc[g].item)]
    /\ loc' = [loc EXCEPT ![g].snap = <<>>]
    /\ Goto(g, "aidx")
    /\ UNCHANGED <<pools, conns, locked, nmtx, panicked, last>>

\* idx = len(h.poolItems) - 1
AcqIdx(g) ==
    /\ pc[g] = "aidx"
    /\ loc' = [loc EXCEPT ![g].idx = LeaseIndex(hub[M].poolItems)]
    /\ Goto(g, "unlock")
    /\ UNCHANGED <<hub, pools, conns, locked, nmtx, panicked, last>>

\* the deferred Unlock; unlocking an unlocked sync.Mutex is a fatal error
Unlock(g) ==
    /\ pc[g] = "unlock"
    /\ IF loc[g].ul \in locked
       THEN locked' = locked \ {loc[g].ul} /\ UNCHANGED panicked
       ELSE panicked' = TRUE /\ UNCHANGED locked
    /\ loc' = [loc EXCEPT ![g].lk = Nil, ![g].ul = Nil]
    /\ Goto(g, IF loc[g].phase = "acq" THEN "use" ELSE "done")
    /\ UNCHANGED <<hub, pools, conns, nmtx, last>>

\* the body of the operation runs on conn; then the deferred closeConn starts
Use(g) ==
    /\ pc[g] = "use"
    /\ loc' = [loc EXCEPT ![g].phase = "rel"]
    /\ Goto(g, "chk")
    /\ UNCHANGED <<hub, pools, conns, locked, nmtx, panicked, last>>

\* closeConn under the mutex: the guard, h.poolItems[idx].Release()
RelRead(g) ==
    LET items == hub[M].poolItems
        idx   == loc[g].idx
    IN  /\ pc[g] = "rread"
        /\ IF ~ReleaseGuard(idx, items)
           THEN /\ Goto(g, "unlock")
                /\ UNCHANGED <<pools, loc, panicked>>
           ELSE IF IndexPanics(idx, items)
           THEN /\ ~panicked /\ panicked' = TRUE
                /\ UNCHANGED <<pools, loc, pc, backendTx>>
           ELSE /\ pools' = [pools EXCEPT ![M] = ItemRelease(@, items[idx + 1])]
                /\ loc' = [loc EXCEPT ![g].snap = items, ![g].rel = items[idx + 1]]
                /\ Goto(g, "rwrite")
                /\ UNCHANGED panicked
        /\ UNCHANGED <<hub, conns, locked, nmtx, last>>

\* closeConn under the mutex: h.poolItems = the list without entry idx
RelWrite(g) ==
    /\ pc[g] = "rwrite"
    /\ hub' = [hub EXCEPT ![M].poolItems = RemoveAt(loc[g].snap, loc[g].idx)]
    /\ loc' = [loc EXCEPT ![g].snap = <<>>]
    /\ Goto(g, "unlock")
    /\ UNCHANGED <<pools, conns, locked, nmtx, panicked, last>>

Init ==
    /\ \E poolsize \in 1..MaxPoolSpec :
         /\ hub = [h \in HubIds |->
                     IF h = M THEN NewHub(TRUE, TRUE, poolsize) ELSE ZeroHub]
         /\ pools = [h \in HubIds |->
                     IF h = M THEN NewHubPool(TRUE, poolsize) ELSE NoPool]
    /\ conns = <<>>
    /\ locked = {}
    /\ nmtx = 0
    /\ pc = [g \in Callers |-> "chk"]
    /\ loc = [g \in Callers |-> NoLoc]
    /\ panicked = FALSE
    /\ backendTx = TRUE
    /\ last = NoLast

Next ==
    \E g \in Callers :
         \/ MtxCheck(g)
         \/ MtxNew(g)
         \/ PoolGet(g)
         \/ Lock(g)
         \/ Defer(g)
         \/ AcqRead(g)
         \/ AcqWrite(g)
         \/ AcqIdx(g)
         \/ Unlock(g)
         \/ Use(g)
         \/ RelRead(g)
         \/ RelWrite(g)

Spec == Init /\ [][Next]_vars

\* SpecPair: the same steps with only the first NumPair goroutines running
InitPair ==
    /\ \E poolsize \in 1..MaxPoolSpec :
         /\ hub = [h \in HubIds |->
                     IF h = M THEN NewHub(TRUE, TRUE, poolsize) ELSE ZeroHub]
         /\ pools = [h \in HubIds |->
                     IF h = M THEN NewHubPool(TRUE, poolsize) ELSE NoPool]
    /\ conns = <<>>
    /\ locked = {}
    /\ nmtx = 0
    /\ pc = [g \in Callers |-> IF g <= NumPair THEN "chk" ELSE "done"]
    /\ loc = [g \in Callers |-> NoLoc]
    /\ panicked = FALSE
    /\ backendTx = TRUE
    /\ last = NoLast

SpecPair == InitPair /\ [][Next]_vars

-----------------------------------------------------------------------------
(* Claims about concurrent operations on the pooled Hub (Spec) *)

\* goroutine g obtained a PoolItem and has not yet run its own release
Holding(g) ==
    /\ loc[g].item # Nil
    /\ pc[g] # "done"
    /\ ~(loc[g].phase = "rel" /\ pc[g] \in {"rwrite", "unlock"})

Released(g) == loc[g].item # Nil /\ ~Holding(g)

AllDone == \A g \in Callers : pc[g] = "done"

\* every goroutine locked the one mutex object: the critical sections never overlapped
OneMutex == nmtx <= 1

\* C1: a pooled connection is in use by at most one caller at a time: while a
\* caller is between its acquire and its own release, its PoolItem is marked
\* used in the pool and no other caller holds it (stated for the runs in which
\* a single mutex serialises the list).
C1_ExclusiveUse ==
    OneMutex =>
        \A g \in Callers :
            Holding(g) =>
                /\ pools[M].items[loc[g].item].used
                /\ \A g2 \in Callers \ {g} :
                       Holding(g2) => loc[g2].item # loc[g].item

\* C2: the PoolItem on which a caller's release invokes Release() is the one
\* it acquired with that index (stated for the runs in which a single mutex
\* serialises the list).
C2_ReleasesOwnLease ==
    OneMutex =>
        \A g \in Callers : loc[g].rel # Nil => loc[g].rel = loc[g].item

\* C4: once all callers have released, no lease is checked out of the pool
\* and the outstanding-lease list is empty (stated for the runs in which a
\* single mutex serialises the list).
C4_AllReturned ==
    (OneMutex /\ AllDone /\ ~panicked) =>
        /\ UsedItems(pools[M]) = {}
        /\ hub[M].poolItems = <<>>

\* C5: the number of leases outstanding - the length of the outstanding-lease
\* list, and the number of callers holding a pooled connection - never
\* exceeds the pool size.
C5_AtMostK ==
    /\ Len(hub[M].poolItems) <= pools[M].size
    /\ Cardinality({g \in Callers : Holding(g)}) <= pools[M].size

\* the bound on the list holds in every run in which one mutex is ever created
C5_AtMostKOneMutex == OneMutex => C5_AtMostK

-----------------------------------------------------------------------------
(* Claims about single handler calls (SpecApi) *)

\* the step is a call of handler op
Calls(op) == last'.n = last.n + 1 /\ last'.op = op

\* s without its entry at 0-based position i
DeleteAt(s, i) == [j \in 1..(Len(s) - 1) |-> IF j <= i THEN s[j] ELSE s[j + 1]]

\* C3: on a pooled Hub a release with an index that is not valid (negative, or
\* not below the length of the list) is a safe no-op: no panic, no PoolItem
\* released, the list as long as before.
C3_InvalidIndexNoOp ==
    (/\ last.op = "CloseConnection"
     /\ hub[last.h].usePool /\ last.pinned = Nil
     /\ (last.idx < 0 \/ last.idx >= last.len))
    => (/\ ~panicked
        /\ last.item = Nil
        /\ Len(hub[last.h].poolItems) = last.len)

\* C6: on a pooled Hub a release with a valid index i calls Release() on
\* exactly the PoolItem at position i and leaves the list equal to the old
\* list with entry i deleted, at the head, the tail and in the middle.
C6_RemovesExactlyOne ==
    [][LET h   == last'.h
           i   == last'.idx
           old == hub[h].poolItems
       IN  (/\ Calls("CloseConnection")
            /\ hub[h].usePool /\ hub[h].txconn = Nil
            /\ 0 <= i /\ i < Len(old))
           => (/\ hub'[h].poolItems = DeleteAt(old, i)
               /\ last'.item = old[i + 1]
               /\ pools' = [pools EXCEPT ![h].items[old[i + 1]].used = FALSE]
               /\ ~panicked')]_vars

C6_MiddleRemoved ==
    /\ last.op = "CloseConnection" /\ last.item # Nil
    /\ hub[last.h].usePool
    /\ 0 < last.idx /\ last.idx < last.len - 1
    /\ Len(hub[last.h].poolItems) = last.len - 1

\* C7: on a pooled, non-transactional Hub a successful acquire appends the
\* PoolItem it obtained at the end of the list and returns the index of that
\* entry (the old length) with the item's connection; a failed pool Get
\* returns -1, no connection and an error and leaves the list unchanged.
C7_AcquireAppends ==
    [][LET h   == last'.h
           k   == last'.item
           old == hub[h].poolItems
       IN  (/\ Calls("GetConnection")
            /\ hub[h].usePool /\ hub[h].connFn /\ hub[h].txconn = Nil)
           => IF last'.err = "none"
              THEN /\ k # Nil
                   /\ pools'[h].items[k].used
                   /\ (k <= Len(pools[h].items) => ~pools[h].items[k].used)
                   /\ hub'[h].poolItems = Append(old, k)
                   /\ last'.idx = Len(old)
                   /\ hub'[h].poolItems[last'.idx + 1] = k
                   /\ last'.conn = pools'[h].items[k].conn
              ELSE /\ last'.idx = NoIndex
                   /\ last'.conn = Nil
                   /\ hub'[h].poolItems = old]_vars

C7_AppendedSecond ==
    /\ last.op = "GetConnection" /\ last.err = "none"
    /\ hub[last.h].usePool /\ last.pinned = Nil
    /\ last.idx >= 1
    /\ Len(hub[last.h].poolItems) = last.idx + 1

\* C8: on a transaction-pinned Hub every acquire returns (-1, the pinned
\* connection, no error), the connection pinned by BeginTx, without calling
\* the pool or the factory and without changing the Hub, its list or pool.
C8_PinnedAcquire ==
    [][LET h == last'.h
       IN  (Calls("GetConnection") /\ hub[h].txconn # Nil)
           => (/\ last'.idx = NoIndex
               /\ last'.conn = hub[h].txconn
               /\ last'.conn = hub[h].born
               /\ last'.err = "none"
               /\ last'.fn = 0 /\ last'.gets = 0
               /\ UNCHANGED <<hub, pools, conns, nmtx>>)]_vars

C8_PinnedAcquiredTwice ==
    /\ last.op = "GetConnection" /\ last.pinned # Nil
    /\ last.conn = last.pinned
    /\ last.n >= 3

\* C9: on a transaction-pinned Hub release is a no-op: the pinned connection
\* is not closed, not released and stays pinned, whatever index and
\* connection are passed; a call on the handle closes the pinned connection
\* only if it is Commit or Rollback.
C9_PinnedReleaseNoOp ==
    [][LET h == last'.h
           c == hub[h].txconn
       IN  /\ (Calls("CloseConnection") /\ c # Nil)
               => UNCHANGED <<hub, pools, conns, locked, nmtx, panicked>>
           /\ (last'.n = last.n + 1 /\ c # Nil
               /\ conns'[c].ncloses # conns[c].ncloses)
               => last'.op \in {"Commit", "Rollback"}]_vars

C9_PinnedReleased ==
    /\ last.op = "CloseConnection" /\ last.pinned # Nil
    /\ last.conn = last.pinned
    /\ hub[last.h].txconn = last.pinned
    /\ conns[last.pinned].open

\* C10: on a direct-mode Hub with a factory every acquire calls the factory
\* once and returns index -1 (with the fresh connection, or with none and an
\* error), and every release closes the given connection and leaves the
\* list and the pool untouched.
C10_DirectMode ==
    [][LET h == last'.h
           c == last'.conn
       IN  (/\ last'.n = last.n + 1
            /\ hub[h].alive /\ ~hub[h].usePool /\ hub[h].connFn
            /\ hub[h].txconn = Nil)
           => /\ last'.op = "GetConnection"
                  => (/\ last'.fn = 1 /\ last'.gets = 0
                      /\ last'.idx = NoIndex
                      /\ IF last'.err = "none"
                         THEN c = Len(conns) + 1 /\ Len(conns') = Len(conns) + 1
                              /\ conns'[c].open
                         ELSE c = Nil /\ conns' = conns
                      /\ UNCHANGED <<hub, pools>>)
              /\ last'.op = "CloseConnection"
                  => (/\ ~conns'[c].open
                      /\ conns'[c].ncloses = conns[c].ncloses + 1
                      /\ \A d \in 1..Len(conns) : d # c => conns'[d] = conns[d]
                      /\ hub'[h].poolItems = hub[h].poolItems
                      /\ pools' = pools
                      /\ (last'.idx >= NoIndex => ~panicked'))]_vars

C10_DirectReleased ==
    /\ last.op = "CloseConnection"
    /\ hub[last.h].alive /\ ~hub[last.h].usePool /\ hub[last.h].connFn
    /\ last.pinned = Nil /\ last.idx = NoIndex
    /\ ~conns[last.conn].open /\ conns[last.conn].ncloses = 1
    /\ last.n >= 2

-----------------------------------------------------------------------------
(* The transaction overlay, under SpecApi *)

\* every connection but c is as it was
OthersSame(c) == \A d \in 1..Len(conns) : d # c => conns'[d] = conns[d]

\* C11: Commit on a handle with a pinned connection issues one commit on it,
\* and whether the commit succeeds or fails the connection is closed and the
\* handle's pinned connection is cleared when Commit returns, the commit error
\* being the result; Commit on a Hub without pinned connection returns
\* NoActiveTransaction and closes nothing.
C11_CommitClosesAndClears ==
    [][LET h == last'.h
           c == hub[h].txconn
       IN  Calls("Commit")
           => IF c # Nil
              THEN /\ conns'[c].ncommits = conns[c].ncommits + 1
                   /\ conns'[c].nrollbacks = conns[c].nrollbacks
                   /\ ~conns'[c].open
                   /\ conns'[c].ncloses = conns[c].ncloses + 1
                   /\ OthersSame(c)
                   /\ hub'[h].txconn = Nil
                   /\ last'.err \in {"none", "commit"}
                   /\ last'.conn = c
              ELSE /\ last'.err = "notx"
                   /\ UNCHANGED <<hub, pools, conns, panicked>>]_vars

C11_FailedCommitClosed ==
    /\ last.op = "Commit" /\ last.err = "commit"
    /\ last.pinned # Nil
    /\ ~conns[last.pinned].open /\ conns[last.pinned].ncommits = 1
    /\ hub[last.h].txconn = Nil

\* C12: Rollback on a handle with a pinned connection issues the rollback
\* exactly once, and whether it succeeds or fails the connection is closed and
\* cleared when Rollback returns; Rollback on a Hub without pinned connection
\* returns NoActiveTransaction and closes nothing.
C12_RollbackOnceClosesAndClears ==
    [][LET h == last'.h
           c == hub[h].txconn
       IN  Calls("Rollback")
           => IF c # Nil
              THEN /\ conns'[c].nrollbacks = conns[c].nrollbacks + 1
                   /\ conns'[c].ncommits = conns[c].ncommits
                   /\ ~conns'[c].open
                   /\ conns'[c].ncloses = conns[c].ncloses + 1
                   /\ OthersSame(c)
                   /\ hub'[h].txconn = Nil
                   /\ last'.err \in {"none", "rollback"}
                   /\ last'.conn = c
              ELSE /\ last'.err = "notx"
                   /\ UNCHANGED <<hub, pools, conns, panicked>>]_vars

C12_RolledBackOnce ==
    /\ last.op = "Rollback" /\ last.err = "none"
    /\ last.pinned # Nil
    /\ ~conns[last.pinned].open /\ conns[last.pinned].nrollbacks = 1
    /\ hub[last.h].txconn = Nil

\* the handle h has been through its first Commit or Rollback
Finalized(h) ==
    /\ hub[h].born # Nil
    /\ conns[hub[h].born].ncommits + conns[hub[h].born].nrollbacks >= 1

\* C13: once a handle has been through its first Commit or Rollback (which may
\* have failed), every later Commit or Rollback on it returns
\* NoActiveTransaction, without panic and without a commit, rollback or close
\* on any connection.
C13_FinalizeOnce ==
    [][LET h == last'.h
       IN  ((Calls("Commit") \/ Calls("Rollback")) /\ Finalized(h))
           => /\ last'.err = "notx"
              /\ ~panicked'
              /\ UNCHANGED <<hub, pools, conns>>]_vars

C13_FinalizedAgain ==
    /\ last.op \in {"Commit", "Rollback"} /\ last.err = "notx"
    /\ Finalized(last.h)
    /\ ~conns[hub[last.h].born].open /\ conns[hub[last.h].born].ncloses = 1

\* C14: BeginTx whose fresh connection reports no transaction support returns
\* an error and no handle, and the connection is closed before it returns.
C14_NoSupportClosed ==
    [][(Calls("BeginTx") /\ ~backendTx /\ Len(conns') > Len(conns))
       => LET c == Len(conns')
          IN  /\ c = Len(conns) + 1
              /\ last'.err = "unsupported" /\ last'.conn = c
              /\ ~conns'[c].open /\ conns'[c].ncloses = 1
              /\ OthersSame(c)
              /\ UNCHANGED <<hub, pools, panicked>>]_vars

C14_NoSupportRefused ==
    /\ last.op = "BeginTx" /\ last.err = "unsupported"
    /\ ~conns[last.conn].supportTx
    /\ ~conns[last.conn].open
    /\ ~hub["tx"].alive

\* C15: a BeginTx that fails because the begin call on the fresh connection
\* fails returns TransactionStartFailed and no handle, and the connection it
\* opened is closed.
C15_BeginFailureCloses ==
    (last.op = "BeginTx" /\ last.err = "begin")
    => /\ ~conns[last.conn].open
       /\ hub["tx"].alive => hub["tx"].born # last.conn

\* no pool holds the connection pinned by a Hub, and no two Hubs pin the same
PinnedExclusive ==
    \A t \in HubIds :
        hub[t].txconn # Nil
        => /\ \A u \in HubIds : \A k \in 1..Len(pools[u].items) :
                  pools[u].items[k].conn # hub[t].txconn
           /\ \A u \in HubIds : u # t => hub[u].txconn # hub[t].txconn

\* C16: a successful BeginTx, on a pooled or a direct Hub, calls the factory
\* once and the pool never; it returns a new Hub pinned to the fresh
\* connection with the parent's logger, and leaves the parent (pool, list,
\* usePool, pinned connection) as it was; a pinned connection is never an
\* item of a pool nor pinned by another Hub.
C16_BeginTxFresh ==
    [][/\ (Calls("BeginTx") /\ last'.err = "none")
           => LET h == last'.h
                  c == last'.conn
              IN  /\ last'.fn = 1 /\ last'.gets = 0
                  /\ c = Len(conns) + 1 /\ Len(conns') = Len(conns) + 1
                  /\ conns'[c].open /\ conns'[c].intx
                  /\ OthersSame(c)
                  /\ \E t \in HubIds \ {h} :
                        /\ ~hub[t].alive /\ hub'[t].alive
                        /\ hub'[t].txconn = c
                        /\ hub'[t]._log = hub[h]._log
                        /\ ~hub'[t].usePool /\ ~hub'[t].pool
                  /\ hub'[h] = hub[h]
                  /\ pools' = pools
       /\ PinnedExclusive']_vars

C16_BeginTxBesidePool ==
    /\ last.op = "BeginTx" /\ last.err = "none" /\ last.h = "main"
    /\ hub["main"].usePool
    /\ Len(pools["main"].items) >= 1
    /\ hub["main"]._log = UserLog
    /\ hub["tx"].txconn = last.conn
    /\ hub["tx"]._log = UserLog

\* C17: a Hub from NewHub never becomes pinned; a handle from BeginTx is
\* pinned to one connection from its creation until its first Commit or
\* Rollback and to none ever after: the pinned connection is never replaced,
\* every acquire before the finalization returns that same connection, and
\* every acquire after it fails with an error and yields no connection.
C17_HandleLifeCycle ==
    [][\A t \in HubIds :
          hub[t].alive
          => /\ hub'[t].born = hub[t].born
             /\ hub[t].txconn \in {Nil, hub[t].born}
             /\ hub'[t].txconn \in {Nil, hub[t].txconn}
             /\ (hub[t].txconn # Nil /\ hub'[t].txconn = Nil)
                 => (last'.op \in {"Commit", "Rollback"} /\ last'.h = t)
             /\ Finalized(t) => (Finalized(t)' /\ hub'[t].txconn = Nil)
             /\ (Calls("GetConnection") /\ last'.h = t /\ hub[t].born # Nil)
                 => IF Finalized(t)
                    THEN /\ last'.err # "none" /\ last'.conn = Nil
                         /\ UNCHANGED <<hub, pools, conns>>
                    ELSE /\ last'.err = "none"
                         /\ last'.conn = hub[t].born]_vars

C17_AcquireAfterFinalization ==
    /\ last.op = "GetConnection" /\ last.err = "config"
    /\ Finalized(last.h)
    /\ hub[last.h].txconn = Nil

\* C18 as stated: an acquire on a Hub without configured factory fails with
\* the configuration error, index -1 and no connection, whatever else holds of
\* the Hub.
C18_NoFactoryRefused ==
    (last.op = "GetConnection" /\ ~hub[last.h].connFn)
    => /\ last.err = "config"
       /\ last.idx = NoIndex /\ last.conn = Nil

\* C18: an acquire on a Hub with neither a pinned connection nor a factory
\* fails with the configuration error, index -1 and no connection, before the
\* pool is looked at: no pool call, no factory call, and the Hub (list, lazily
\* created mutex, pool size) and the pool as they were. The pinned-connection
\* check alone comes before it.
C18_NoFactoryUnpinnedRefused ==
    [][LET h == last'.h
       IN  (Calls("GetConnection") /\ ~hub[h].connFn /\ hub[h].txconn = Nil)
           => /\ last'.err = "config"
              /\ last'.idx = NoIndex /\ last'.conn = Nil
              /\ last'.fn = 0 /\ last'.gets = 0
              /\ UNCHANGED <<hub, pools, conns, nmtx, panicked>>]_vars

C18_PooledNoFactory ==
    /\ last.op = "GetConnection" /\ last.err = "config"
    /\ last.h = "main" /\ hub["main"].usePool /\ ~hub["main"].connFn
    /\ hub["main"].poolSize = 0 /\ hub["main"].mtx = Nil
    /\ last.n >= 2

\* C19: BeginTx and GetClassicConnection on a Hub without factory (a Hub made
\* with a nil factory, or a transaction handle) return an error: the call
\* ends without a run-time panic.
C19_NoUncheckedFault ==
    (last.op \in {"BeginTx", "GetClassicConnection"} /\ ~hub[last.h].connFn)
    => /\ last.err \notin {"none", "panic"}
       /\ ~panicked

-----------------------------------------------------------------------------
(* Two callers on a pool of one connection (Spec) *)

\* a and b are the only goroutines that have started, and the pool has size 1
TwoCallers(a, b) ==
    /\ a # b
    /\ pools[M].size = 1
    /\ \A g \in Callers \ {a, b} : pc[g] = "chk" /\ loc[g] = NoLoc

\* C20: with a pool of size 1 and two callers, the second caller holds no
\* connection while the first holds its lease; once the first caller has
\* released, the acquire of the second one, still under way, can go on to
\* succeed (the process is alive); and an acquire that ended with the pool's
\* error left no lease behind.
C20_SecondCallerServed ==
    \A a, b \in Callers :
        TwoCallers(a, b)
        => /\ ~(Holding(a) /\ Holding(b))
           /\ (Released(a) /\ loc[b].phase = "acq" /\ loc[b].err = "none")
               => ~panicked
           /\ loc[b].err = "pool"
               => (loc[b].item = Nil /\ loc[b].idx = NoIndex /\ pc[b] = "done")

-----------------------------------------------------------------------------
(* Operations (SpecOps) *)

\* a Hub from NewHub in direct mode, with a factory
Direct(hr) == hr.alive /\ ~hr.usePool /\ hr.connFn /\ hr.txconn = Nil

\* a Hub from NewHub in pooled mode, with a factory
Pooled(hr) == hr.alive /\ hr.usePool /\ hr.connFn /\ hr.txconn = Nil

\* C21: on a direct-mode Hub every operation calls the factory once; the
\* operation whose factory call fails returns the 'unable to open connection'
\* error without using or closing any connection, and every other operation
\* uses the connection it opened and closes exactly that one, so that no
\* operation leaves a connection open.
C21_DirectOperation ==
    [][LET h == last'.h
           c == last'.conn
       IN  (Calls("Operation") /\ Direct(hub[h]))
           => /\ last'.fn = 1 /\ last'.gets = 0 /\ last'.idx = NoIndex
              /\ IF last'.err = "open"
                 THEN /\ c = Nil /\ last'.uses = 0 /\ last'.rels = 0
                      /\ conns' = conns
                 ELSE /\ last'.err \in {"none", "body"}
                      /\ c = Len(conns) + 1 /\ Len(conns') = c
                      /\ last'.uses = 1 /\ last'.rels = 1
                      /\ ~conns'[c].open /\ conns'[c].ncloses = 1
                      /\ OthersSame(c)
              /\ hub'[h].poolItems = hub[h].poolItems
              /\ pools' = pools /\ ~panicked']_vars

C21_ThirdCallFails ==
    /\ last.op = "Operation" /\ last.err = "open" /\ last.n = 3
    /\ Direct(hub[last.h]) /\ ~hub["tx"].alive
    /\ Len(conns) = 2
    /\ \A c \in 1..2 : ~conns[c].open /\ conns[c].ncloses = 1

\* C22: every operation acquires first. If the acquire fails, the operation
\* returns that error, runs its body on no connection and calls no release
\* (nothing is closed or released). If it succeeds, the body runs once on the
\* connection acquired and release runs once with the index and connection
\* acquired, whether the body succeeded or failed: the pooled lease is back in
\* the pool and off the list, the direct connection is closed, the pinned
\* connection is left alone.
C22_AcquireBodyRelease ==
    [][LET h  == last'.h
           hr == hub[h]
           c  == last'.conn
       IN  Calls("Operation")
           => IF last'.err \in {"config", "pool", "open"}
              THEN /\ c = Nil /\ last'.idx = NoIndex
                   /\ last'.uses = 0 /\ last'.rels = 0
                   /\ conns' = conns
                   /\ hub'[h].poolItems = hr.poolItems
                   /\ \A k \in 1..Len(pools[h].items) :
                          pools'[h].items[k] = pools[h].items[k]
              ELSE /\ last'.err \in {"none", "body"}
                   /\ c # Nil
                   /\ last'.uses = 1 /\ last'.rels = 1
                   /\ ~panicked'
                   /\ hub'[h].poolItems = hr.poolItems
                   /\ IF hr.txconn # Nil
                      THEN c = hr.txconn /\ UNCHANGED <<hub, pools, conns>>
                      ELSE IF hr.usePool
                      THEN /\ last'.idx = Len(hr.poolItems)
                           /\ pools'[h].items[last'.item].conn = c
                           /\ UsedItems(pools'[h]) = UsedItems(pools[h])
                           /\ conns'[c].open /\ conns'[c].ncloses = 0
                      ELSE /\ last'.idx = NoIndex
                           /\ c = Len(conns') /\ ~conns'[c].open
                           /\ conns'[c].ncloses = 1]_vars

C22_BodyFailedReleased ==
    /\ last.op = "Operation" /\ last.err = "body"
    /\ Pooled(hub[last.h])
    /\ last.len = 1 /\ hub[last.h].poolItems = <<1>>
    /\ last.item = 2 /\ last.idx = 1
    /\ UsedItems(pools[last.h]) = {1}

\* C23: on a pooled Hub operations run one after another never exhaust the
\* pool: an operation that starts with no lease outstanding acquires a
\* connection unless the factory itself fails, and ends with the list empty
\* and no PoolItem in use again.
C23_SequentialOperations ==
    (/\ last.op = "Operation"
     /\ Pooled(hub[last.h])
     /\ last.len = 0
     /\ ~(last.err = "pool" /\ last.fn = 1))
    => /\ last.err \in {"none", "body"}
       /\ hub[last.h].poolItems = <<>>
       /\ UsedItems(pools[last.h]) = {}

-----------------------------------------------------------------------------
(* Settings and getters (SpecCfg) *)

\* C24: a pooled Hub made with pool size 0 has no pool until its first pooled
\* acquisition has replaced the size 0 by 100, and the pool it then has is of
\* capacity 100.
C24_LazyPoolOfHundred ==
    \A h \in HubIds :
        (hub[h].alive /\ hub[h].argUsePool /\ PoolSizeArg(hub[h]) = 0)
        => /\ hub[h].poolSize = 0 => ~hub[h].pool
           /\ hub[h].pool => pools[h].size = DefaultPoolSize

\* C25 as stated: UsePool() and PoolSize() return the values passed to NewHub,
\* whatever was called on the Hub before.
C25_GettersReturnArguments ==
    last.op = "Getters"
    => /\ last.flag = hub[last.h].argUsePool
       /\ last.ret = PoolSizeArg(hub[last.h])

\* C25: usePool never changes, and poolSize changes only from 0 to 100, in a
\* pooled acquire on an unpinned Hub with a factory: UsePool() returns the
\* value passed to NewHub, and PoolSize() returns the value passed to NewHub
\* or, when that was 0 and such an acquire has run, 100.
C25_FixedUpToDefault ==
    [][\A h \in HubIds :
          hub[h].alive
          => /\ hub'[h].usePool = hub[h].usePool
             /\ hub[h].usePool = hub[h].argUsePool
             /\ \/ hub'[h].poolSize = hub[h].poolSize
                \/ /\ hub[h].poolSize = 0
                   /\ hub'[h].poolSize = DefaultPoolSize
                   /\ Pooled(hub[h])
                   /\ Calls("GetConnection") /\ last'.h = h /\ last'.gets = 1
             /\ hub[h].poolSize \in
                    {PoolSizeArg(hub[h])} \cup
                    (IF PoolSizeArg(hub[h]) = 0 THEN {DefaultPoolSize} ELSE {})
             /\ (Calls("Getters") /\ last'.h = h)
                 => /\ last'.flag = hub[h].usePool
                    /\ last'.ret = hub[h].poolSize]_vars

C25_DefaultedSizeRead ==
    /\ last.op = "Getters" /\ last.ret = DefaultPoolSize /\ last.flag
    /\ PoolSizeArg(hub[last.h]) = 0
    /\ pools[last.h].closed

\* C26: on a pooled Hub SetAutoReleaseDuration(d) sets the pool's auto-release
\* to d and its acquisition timeout to d + 5s, and SetAutoCloseDuration(d)
\* sets its idle auto-close to d, each leaving the rest of the pool and the
\* Hub as they were; on a direct-mode Hub and on a transaction handle both
\* change no field and create no pool.
C26_SettersOnlyWhenPooled ==
    [][LET h == last'.h
           d == last'.ret
       IN  /\ Calls("SetAutoReleaseDuration")
               => IF hub[h].usePool
                  THEN /\ hub'[h].pool
                       /\ pools' = [pools EXCEPT ![h].AutoRelease = d,
                                                 ![h].Timeout = d + Grace]
                       /\ hub' = [hub EXCEPT ![h].pool = TRUE]
                  ELSE UNCHANGED <<hub, pools>>
           /\ Calls("SetAutoCloseDuration")
               => IF hub[h].usePool
                  THEN /\ hub'[h].pool
                       /\ pools' = [pools EXCEPT ![h].AutoClose = d]
                       /\ hub' = [hub EXCEPT ![h].pool = TRUE]
                  ELSE UNCHANGED <<hub, pools>>
           /\ (Calls("SetAutoReleaseDuration") \/ Calls("SetAutoCloseDuration"))
               => UNCHANGED <<conns, locked, nmtx, panicked>>]_vars

C26_BothSet ==
    /\ last.op = "SetAutoReleaseDuration" /\ hub[last.h].usePool
    /\ pools[last.h].AutoRelease = last.ret
    /\ pools[last.h].Timeout = last.ret + Grace
    /\ pools[last.h].AutoClose = last.ret
    /\ pools[last.h].AutoClose # DefaultAutoClose

\* C27: IsTx returns false on a Hub that holds no pinned connection (a Hub
\* from NewHub, a handle after Commit or Rollback) and on a Hub that holds one
\* it returns that connection's own transaction flag; it changes nothing.
C27_IsTxDelegates ==
    [][LET h == last'.h
           c == hub[h].txconn
       IN  Calls("IsTx")
           => /\ last'.flag = IF c = Nil THEN FALSE ELSE conns[c].intx
              /\ (hub[h].born = Nil \/ Finalized(h)) => ~last'.flag
              /\ UNCHANGED <<hub, pools, conns, panicked>>]_vars

C27_PinnedInactive ==
    /\ last.op = "IsTx" /\ ~last.flag
    /\ last.pinned # Nil /\ hub[last.h].txconn = last.pinned
    /\ ~conns[last.pinned].intx

-----------------------------------------------------------------------------
(* The mutex and the indices (Spec) *)

\* goroutine g is between h.mtx.Lock() and the deferred Unlock
InCritical(g) ==
    pc[g] \in {"defer", "aread", "awrite", "aidx", "rread", "rwrite", "unlock"}

\* C28: the list is read and written under one mutex: a single sync.Mutex
\* object is ever created for the Hub, and at most one goroutine is between
\* its Lock and its Unlock at a time, from the very first calls on.
C28_SingleMutex ==
    /\ nmtx <= 1
    /\ \A g, g2 \in Callers : (InCritical(g) /\ InCritical(g2)) => g = g2

\* C29: a goroutine in the pool's Get holds no mutex; while the process runs,
\* a locked Hub mutex is held by a goroutine inside its critical section,
\* which no pool wait can stop, so that a release waiting for the mutex gets
\* it and some goroutine can always take a step until all are done.
C29_NoMutexAcrossGet ==
    /\ \A g \in Callers : pc[g] = "get" => (loc[g].lk = Nil /\ loc[g].ul = Nil)
    /\ (~panicked /\ hub[M].mtx \in locked)
        => \E g \in Callers : InCritical(g) /\ loc[g].lk = hub[M].mtx
    /\ (~panicked /\ ~AllDone)
        => \E g \in Callers :
              /\ pc[g] # "done"
              /\ pc[g] = "lock" => hub[M].mtx \notin locked

\* one goroutine waits on the saturated pool while the other is in its release
C29_ReleaseBesideBlockedGet ==
    \E g, g2 \in Callers :
        /\ pc[g] = "get" /\ FreeItems(pools[M]) = {}
        /\ Len(pools[M].items) = pools[M].size
        /\ loc[g2].phase = "rel" /\ InCritical(g2) /\ pc[g2] = "rread"

\* getConn has returned an index to g and g has not yet run its own release
Outstanding(g) ==
    /\ Holding(g)
    /\ pc[g] = "use" \/ loc[g].phase = "rel"

\* C30: the indices held by the callers that have acquired and not yet
\* released are pairwise distinct (stated for the runs in which a single
\* mutex serialises the list).
C30_DistinctIndices ==
    OneMutex =>
        \A g, g2 \in Callers :
            (g # g2 /\ Outstanding(g) /\ Outstanding(g2))
            => loc[g].idx # loc[g2].idx

\* C31: for every interleaving of operations on a transaction handle with a
\* Commit or Rollback on it, the pinned connection is closed exactly once, by
\* that Commit or Rollback: it is open and never closed before the
\* finalization, closed once after it, and the release step of an operation
\* that acquired it does not close it.
C31_PinnedClosedOnce ==
    [][LET c == hub[T].born
       IN  (hub[T].alive /\ last'.n = last.n + 1)
           => /\ conns'[c].ncloses = IF Finalized(T)' THEN 1 ELSE 0
              /\ (last'.op = "closeConn" /\ last'.conn = c)
                  => conns'[c].ncloses = conns[c].ncloses]_vars

====
